---- MODULE Spec2Model ----
(***************************************************************************)
(* Model of the point-name extraction core of extract_point_names.py:      *)
(* clean_ocr_artifacts, is_valid_point_name,                               *)
(* extract_point_name_from_section and extract_point_names_from_text.      *)
(* A Python str is modelled as a sequence of one-character strings, so     *)
(* that upper(), strip(), split(), the `in` test and the regular           *)
(* expressions are computed character by character.                        *)
(***************************************************************************)
EXTENDS Integers, Sequences, FiniteSets, TLC

VARIABLES text, lines, li, in_table, point_names, pc,
          first_section, tokens, ti, name_tokens, result,
          token, once, twice

vars == <<text, lines, li, in_table, point_names, pc,
          first_section, tokens, ti, name_tokens, result,
          token, once, twice>>

(***************************************************************************)
(* Characters and the str methods the code uses                            *)
(***************************************************************************)
LowerLetters == <<"a", "b", "c", "d", "e", "f", "g", "h", "i", "j", "k", "l", "m", "n", "o", "p", "q", "r", "s", "t", "u", "v", "w", "x", "y", "z">>

UpperLetters == <<"A", "B", "C", "D", "E", "F", "G", "H", "I", "J", "K", "L", "M", "N", "O", "P", "Q", "R", "S", "T", "U", "V", "W", "X", "Y", "Z">>

DigitChars == {"0", "1", "2", "3", "4", "5", "6", "7", "8", "9"}

SpaceChars == {" ", "\t"}

ArtifactChars == {"|", "[", "]", "(", ")", "{", "}", "_"}

ch_islower(c) == \E i \in 1..26 : LowerLetters[i] = c

ch_isupper(c) == \E i \in 1..26 : UpperLetters[i] = c

ch_isalpha(c) == ch_islower(c) \/ ch_isupper(c)

ch_upper(c) ==
    IF ch_islower(c)
    THEN UpperLetters[CHOOSE i \in 1..26 : LowerLetters[i] = c]
    ELSE c

str_upper(s) == [i \in 1..Len(s) |-> ch_upper(s[i])]

\* Python's `sub in s`
str_contains(s, sub) ==
    \E i \in 1..(Len(s) - Len(sub) + 1) :
        \A k \in 1..Len(sub) : s[i + k - 1] = sub[k]

str_startswith(s, p) == Len(s) >= Len(p) /\ SubSeq(s, 1, Len(p)) = p

\* str.isdigit(): non-empty and every character a digit
str_isdigit(s) == Len(s) > 0 /\ \A i \in 1..Len(s) : s[i] \in DigitChars

\* str.strip(): drop leading and trailing whitespace
str_strip(s) ==
    LET keep == {i \in 1..Len(s) : s[i] \notin SpaceChars}
    IN  IF keep = {} THEN <<>>
        ELSE SubSeq(s, CHOOSE i \in keep : \A j \in keep : i <= j,
                       CHOOSE i \in keep : \A j \in keep : i >= j)

\* str.split(sep) for a one-character separator: empty fields are kept
RECURSIVE split_from(_, _, _, _)
split_from(s, sep, i, cur) ==
    IF i > Len(s) THEN <<cur>>
    ELSE IF s[i] = sep THEN <<cur>> \o split_from(s, sep, i + 1, <<>>)
    ELSE split_from(s, sep, i + 1, Append(cur, s[i]))

str_split(s, sep) == split_from(s, sep, 1, <<>>)

\* str.split() without argument: split on runs of whitespace, no empty fields
RECURSIVE split_ws_from(_, _, _)
split_ws_from(s, i, cur) ==
    IF i > Len(s) THEN (IF cur = <<>> THEN <<>> ELSE <<cur>>)
    ELSE IF s[i] \in SpaceChars
         THEN (IF cur = <<>> THEN <<>> ELSE <<cur>>) \o split_ws_from(s, i + 1, <<>>)
         ELSE split_ws_from(s, i + 1, Append(cur, s[i]))

str_split_ws(s) == split_ws_from(s, 1, <<>>)

\* ' '.join(parts)
RECURSIVE str_join(_)
str_join(parts) ==
    IF parts = <<>> THEN <<>>
    ELSE IF Len(parts) = 1 THEN parts[1]
    ELSE parts[1] \o <<" ">> \o str_join(Tail(parts))

\* re.sub(r'\s+', ' ', s): every maximal run of whitespace becomes one space
RECURSIVE collapse_ws_from(_, _)
collapse_ws_from(s, i) ==
    IF i > Len(s) THEN <<>>
    ELSE IF s[i] \in SpaceChars
         THEN (IF i > 1 /\ s[i - 1] \in SpaceChars THEN <<>> ELSE <<" ">>)
              \o collapse_ws_from(s, i + 1)
         ELSE <<s[i]>> \o collapse_ws_from(s, i + 1)

collapse_ws(s) == collapse_ws_from(s, 1)

\* re.sub(r'[|\[\](){}\_]', '', token)
remove_artifacts(s) == SelectSeq(s, LAMBDA c : c \notin ArtifactChars)

(***************************************************************************)
(* clean_ocr_artifacts                                                     *)
(***************************************************************************)
\* variant: the leading "l" is dropped before the artifact characters are deleted
clean_fix_before_delete(t) ==
    LET c1 == IF str_startswith(t, <<"l">>) /\ Len(t) > 1 /\ ch_isupper(t[2])
              THEN Tail(t) ELSE t
        c0 == remove_artifacts(c1)
        c2 == IF str_startswith(c0, <<"/">>) /\ Len(c0) > 1
              THEN Tail(c0) ELSE c0
    IN  str_strip(c2)

\* variant: the underscore is not in the deleted character class
clean_keep_underscore(t) ==
    LET c0 == SelectSeq(t, LAMBDA c : c \notin (ArtifactChars \ {"_"}))
        c1 == IF str_startswith(c0, <<"l">>) /\ Len(c0) > 1 /\ ch_isupper(c0[2])
              THEN Tail(c0) ELSE c0
        c2 == IF str_startswith(c1, <<"/">>) /\ Len(c1) > 1
              THEN Tail(c1) ELSE c1
    IN  str_strip(c2)

clean_ocr_artifacts(t) ==
    LET c0 == remove_artifacts(t)
        c1 == IF str_startswith(c0, <<"l">>) /\ Len(c0) > 1 /\ ch_isupper(c0[2])
              THEN Tail(c0) ELSE c0
        c2 == IF str_startswith(c1, <<"/">>) /\ Len(c1) > 1
              THEN Tail(c1) ELSE c1
    IN  str_strip(c2)

(***************************************************************************)
(* is_valid_point_name                                                     *)
(***************************************************************************)
S_SPARE == <<"S", "P", "A", "R", "E">>

\* variant: the "SPARE" filter is missing
is_valid_without_spare(name) ==
    /\ name # <<>>
    /\ str_strip(name) # <<>>
    /\ Len(str_strip(name)) > 1
    /\ \E i \in 1..Len(name) : ch_isalpha(name[i])

is_valid_point_name(name) ==
    IF name = <<>> \/ str_strip(name) = <<>> THEN FALSE
    ELSE IF str_contains(str_strip(str_upper(name)), S_SPARE) THEN FALSE
    ELSE IF Len(str_strip(name)) <= 1 THEN FALSE
    ELSE IF ~(\E i \in 1..Len(name) : ch_isalpha(name[i])) THEN FALSE
    ELSE TRUE

(***************************************************************************)
(* extract_point_name_from_section                                         *)
(***************************************************************************)
MAX_NAME_TOKENS == 10

MAX_SMALL_NUMBER_LENGTH == 2

stop_keywords ==
    << <<"C", "L", "O", "S", "E">>, <<"O", "P", "E", "N">>,
       <<"N", "O", "R", "M", "A", "L">>, <<"A", "L", "A", "R", "M">>,
       <<"A", "U", "T", "O">>, <<"S", "O", "L", "I", "D">>,
       <<"M", "A", "N", "U", "A", "L">>, <<"R", "K">>, <<"D", "I">>,
       <<"[", "o", "r">>, <<"[", "o", "t">>, <<"[", "p", "I">>,
       <<"[", "o", "I">>, <<"[", "d", "I">> >>

\* variant: the keyword 'DI' is missing from the list
hits_stop_keyword_without_DI(tok) ==
    \E k \in 1..Len(stop_keywords) :
        /\ stop_keywords[k] # <<"D", "I">>
        /\ str_contains(str_upper(tok), stop_keywords[k])

\* any(keyword in token.upper() for keyword in stop_keywords)
hits_stop_keyword(tok) ==
    LET token_upper == str_upper(tok) IN
    \E k \in 1..Len(stop_keywords) :
        str_contains(token_upper, stop_keywords[k])

\* variant: a digit-only token ends the name even when nothing was collected
is_numeric_stop_any(cleaned, acc) == str_isdigit(cleaned)

\* cleaned.isdigit() and len(name_tokens) > 0
is_numeric_stop(cleaned, acc) == str_isdigit(cleaned) /\ Len(acc) > 0

\* variant: off-by-one in the token limit
reached_limit_late(acc) == Len(acc) > MAX_NAME_TOKENS

\* len(name_tokens) >= MAX_NAME_TOKENS
reached_limit(acc) == Len(acc) >= MAX_NAME_TOKENS

\* One pass through the body of `for token in tokens`: the branch taken, the
\* accumulator afterwards, and whether the loop is left with break.
token_step(tok, acc) ==
    IF hits_stop_keyword(tok)
    THEN [branch |-> "stop", acc |-> acc, brk |-> TRUE]
    ELSE LET cleaned == clean_ocr_artifacts(tok) IN
         IF cleaned = <<>> \/ Len(cleaned) < 1
         THEN [branch |-> "skip", acc |-> acc, brk |-> FALSE]
         ELSE IF is_numeric_stop(cleaned, acc)
         THEN [branch |-> "number",
               acc |-> IF Len(cleaned) <= MAX_SMALL_NUMBER_LENGTH
                       THEN Append(acc, cleaned) ELSE acc,
               brk |-> TRUE]
         ELSE [branch |-> "append",
               acc |-> Append(acc, cleaned),
               brk |-> reached_limit(Append(acc, cleaned))]

\* result = ' '.join(name_tokens).strip(); re.sub(r'\s+', ' ', result)
join_name(acc) == collapse_ws(str_strip(str_join(acc)))

RECURSIVE token_loop(_, _, _)
token_loop(toks, i, acc) ==
    IF i > Len(toks) THEN acc
    ELSE LET s == token_step(toks[i], acc) IN
         IF s.brk THEN s.acc ELSE token_loop(toks, i + 1, s.acc)

\* the function as a whole, as its caller sees it
extract_point_name_from_section(section) ==
    LET toks == str_split_ws(section) IN
    IF toks = <<>> THEN <<>> ELSE join_name(token_loop(toks, 1, <<>>))

(***************************************************************************)
(* extract_point_names_from_text: the line classifier                      *)
(***************************************************************************)
S_POINT_NAME == <<"P", "O", "I", "N", "T", " ", "N", "A", "M", "E">>

metadata_skips ==
    << <<"P", "L", "O", "T", " ", "B", "Y", ":">>, <<".", "d", "w", "g">>,
       <<"D", "I", "A", "G">>, <<"N", "O", "T", "E">>,
       <<"C", "O", "E", "F", "F", "I", "C", "I", "E", "N", "T">>,
       <<"O", "F", "F", "S", "E", "T">> >>

\* variant: the header test is made on the line as written
is_header_case_sensitive(line) == str_contains(line, S_POINT_NAME)

\* 'POINT NAME' in line.upper()
is_header(line) == LET line_upper == str_upper(line) IN str_contains(line_upper, S_POINT_NAME)

\* variant: the metadata test is made on the upper-cased line
is_metadata_ignoring_case(line) ==
    \E k \in 1..Len(metadata_skips) :
        str_contains(str_upper(line), str_upper(metadata_skips[k]))

\* any(skip in line for skip in [...])
is_metadata(line) ==
    \E k \in 1..Len(metadata_skips) : str_contains(line, metadata_skips[k])

ClassChars == {"|", "["} \cup SpaceChars

\* re.match(r'^(\d+)\s*[|\[\s]+(.+)', line) by backtracking: d digits, then s
\* whitespace characters, then c characters of the class, then at least one
\* more character; every quantifier is greedy, so the first successful
\* attempt is the one with the largest d, then the largest s, then the
\* largest c.
re_attempts(line) ==
    LET n == Len(line)
        ds == {d \in 1..n : \A i \in 1..d : line[i] \in DigitChars}
        ss(d) == {s \in 0..(n - d) :
                     \A i \in (d + 1)..(d + s) : line[i] \in SpaceChars}
        cs(d, s) == {c \in 1..(n - d - s - 1) :
                        \A i \in (d + s + 1)..(d + s + c) : line[i] \in ClassChars}
    IN  UNION {UNION {{<<d, s, c>> : c \in cs(d, s)} : s \in ss(d)} : d \in ds}

re_before(a, b) ==
    \/ a[1] > b[1]
    \/ a[1] = b[1] /\ a[2] > b[2]
    \/ a[1] = b[1] /\ a[2] = b[2] /\ a[3] >= b[3]

\* variant: the row is only recognised once a header line has been seen
re_match_in_table_only(line) ==
    LET as == re_attempts(line) IN
    IF as = {} \/ ~in_table THEN [matched |-> FALSE, group2 |-> <<>>]
    ELSE LET a == CHOOSE x \in as : \A y \in as : re_before(x, y)
         IN  [matched |-> TRUE,
              group2 |-> SubSeq(line, a[1] + a[2] + a[3] + 1, Len(line))]

re_match(line) ==
    LET as == re_attempts(line) IN
    IF as = {} THEN [matched |-> FALSE, group2 |-> <<>>]
    ELSE LET a == CHOOSE x \in as : \A y \in as : re_before(x, y)
         IN  [matched |-> TRUE,
              group2 |-> SubSeq(line, a[1] + a[2] + a[3] + 1, Len(line))]

\* remainder = match.group(2).strip(); sections = remainder.split('|');
\* first_section = sections[0].strip()
section_of(group2) == str_strip(str_split(str_strip(group2), "|")[1])

(***************************************************************************)
(* Inputs                                                                  *)
(***************************************************************************)
MaxLines == 2

MaxSuffix == 3

MaxTokLen == 4

MaxTextLen == 4

\* 'NO. | POINT NAME | STATE'
L_Header == <<"N", "O", ".", " ", "|", " ", "P", "O", "I", "N", "T", " ", "N", "A", "M", "E", " ", "|", " ", "S", "T", "A", "T", "E">>

\* '1 | Pump 1 Run Status | CLOSE'
L_Pump == <<"1", " ", "|", " ", "P", "u", "m", "p", " ", "1", " ", "R", "u", "n", " ", "S", "t", "a", "t", "u", "s", " ", "|", " ", "C", "L", "O", "S", "E">>

\* '2 | Spare'
L_Spare == <<"2", " ", "|", " ", "S", "p", "a", "r", "e">>

\* ' \t'
L_Blank == <<" ", "\t">>

\* '3 | NOTE x'
L_Note == <<"3", " ", "|", " ", "N", "O", "T", "E", " ", "x">>

\* '4 | Note b'
L_NoteLower == <<"4", " ", "|", " ", "N", "o", "t", "e", " ", "b">>

\* '5 a.dwg'
L_Dwg == <<"5", " ", "a", ".", "d", "w", "g">>

\* '6 | point name'
L_HeaderLower == <<"6", " ", "|", " ", "p", "o", "i", "n", "t", " ", "n", "a", "m", "e">>

\* 'Pump A'
L_NoNumber == <<"P", "u", "m", "p", " ", "A">>

\* '7Pump A'
L_NoSeparator == <<"7", "P", "u", "m", "p", " ", "A">>

\* ' 8 [ lINPUT_(A) () {b} | x'
L_Artifacts == <<" ", "8", " ", "[", " ", "l", "I", "N", "P", "U", "T", "_", "(", "A", ")", " ", "(", ")", " ", "{", "b", "}", " ", "|", " ", "x">>

\* '9 |'
L_OnlyPipe == <<"9", " ", "|">>

\* '10\tFeeder 7 Amps 001'
L_Feeder == <<"1", "0", "\t", "F", "e", "e", "d", "e", "r", " ", "7", " ", "A", "m", "p", "s", " ", "0", "0", "1">>

\* '11 | 12 34'
L_Numbers == <<"1", "1", " ", "|", " ", "1", "2", " ", "3", "4">>

\* '12 | 52 Breaker Status Open 125'
L_Breaker == <<"1", "2", " ", "|", " ", "5", "2", " ", "B", "r", "e", "a", "k", "e", "r", " ", "S", "t", "a", "t", "u", "s", " ", "O", "p", "e", "n", " ", "1", "2", "5">>

\* '13 | X'
L_Single == <<"1", "3", " ", "|", " ", "X">>

\* '14 a b c d e f g h i j k'
L_Long == <<"1", "4", " ", "a", " ", "b", " ", "c", " ", "d", " ", "e", " ", "f", " ", "g", " ", "h", " ", "i", " ", "j", " ", "k">>

\* '15 | unit sPaRe_2 x'
L_SpareInside == <<"1", "5", " ", "|", " ", "u", "n", "i", "t", " ", "s", "P", "a", "R", "e", "_", "2", " ", "x">>

LinePool ==
    {L_Header, L_Pump, L_Spare, L_Blank, L_Note,
     L_NoteLower, L_Dwg, L_HeaderLower, L_NoNumber, L_NoSeparator,
     L_Artifacts, L_OnlyPipe, L_Feeder, L_Numbers, L_Breaker,
     L_Single, L_Long, L_SpareInside}

RECURSIVE join_newline(_)
join_newline(ls) ==
    IF ls = <<>> THEN <<>>
    ELSE IF Len(ls) = 1 THEN ls[1]
    ELSE ls[1] \o <<"\n">> \o join_newline(Tail(ls))

\* the document of the worked example: header, one data row, one Spare row
DocExample == join_newline(<<L_Header, L_Pump, L_Spare>>)

\* every short text over a row number, the separators, a letter and newline
RawAlphabet == {"1", " ", "|", "[", "a", "\n"}

RawTexts == UNION {[1..n -> RawAlphabet] : n \in 0..MaxTextLen}

Texts ==
    {DocExample} \cup RawTexts \cup
    {join_newline(ls) : ls \in UNION {[1..n -> LinePool] : n \in 0..MaxLines}}

T_Pump == <<"P", "u", "m", "p">>

T_7 == <<"7">>

T_123 == <<"1", "2", "3">>

T_Open == <<"O", "p", "e", "n">>

T_or == <<"[", "o", "r">>

T_dI == <<"[", "d", "I">>

T_Bracket == <<"[">>

T_R_K == <<"R", "_", "K">>

T_lX == <<"l", "X">>

TokenPool == {T_Pump, T_7, T_123, T_Open, T_or, T_dI, T_Bracket, T_R_K, T_lX}

\* '52 Breaker Status Open 125'
X_Breaker == <<"5", "2", " ", "B", "r", "e", "a", "k", "e", "r", " ", "S", "t", "a", "t", "u", "s", " ", "O", "p", "e", "n", " ", "1", "2", "5">>

\* 'Feeder 7 Amps 001'
X_Feeder == <<"F", "e", "e", "d", "e", "r", " ", "7", " ", "A", "m", "p", "s", " ", "0", "0", "1">>

\* '  Pump \t 1 '
X_Spaces == <<" ", " ", "P", "u", "m", "p", " ", "\t", " ", "1", " ">>

\* 'a b c d e f g h i'
X_Nine == <<"a", " ", "b", " ", "c", " ", "d", " ", "e", " ", "f", " ", "g", " ", "h", " ", "i">>

Prefixes == {<<>>, X_Nine}

Sections ==
    {X_Breaker, X_Feeder, X_Spaces} \cup
    {str_join((IF p = <<>> THEN <<>> ELSE <<p>>) \o sfx) :
        p \in Prefixes,
        sfx \in UNION {[1..n -> TokenPool] : n \in 0..MaxSuffix}}

CleanAlphabet == {"l", "/", "X", "a", "_"}

CleanInputs == UNION {[1..n -> CleanAlphabet] : n \in 0..MaxTokLen}

(***************************************************************************)
(* extract_point_names_from_text as a state machine                        *)
(***************************************************************************)
CurLine == str_strip(lines[li])

InLineLoop == pc = "lines" /\ li <= Len(lines)

ExtractVars == <<first_section, tokens, ti, name_tokens, result>>

CleanVars == <<token, once, twice>>

\* point_names = []; lines = text.split('\n'); in_table = False
SplitText ==
    /\ pc = "start"
    /\ lines' = str_split(text, "\n")
    /\ point_names' = <<>>
    /\ in_table' = FALSE
    /\ li' = 1
    /\ pc' = "lines"
    /\ UNCHANGED <<text, ExtractVars, CleanVars>>

\* if not line: continue
SkipBlank ==
    /\ InLineLoop
    /\ CurLine = <<>>
    /\ li' = li + 1
    /\ UNCHANGED <<text, lines, in_table, point_names, pc, ExtractVars, CleanVars>>

\* if 'POINT NAME' in line.upper(): in_table = True; continue
Header ==
    /\ InLineLoop
    /\ CurLine # <<>>
    /\ is_header(CurLine)
    /\ in_table' = TRUE
    /\ li' = li + 1
    /\ UNCHANGED <<text, lines, point_names, pc, ExtractVars, CleanVars>>

\* if any(skip in line for skip in [...]): continue
SkipMetadata ==
    /\ InLineLoop
    /\ CurLine # <<>>
    /\ ~is_header(CurLine)
    /\ is_metadata(CurLine)
    /\ li' = li + 1
    /\ UNCHANGED <<text, lines, in_table, point_names, pc, ExtractVars, CleanVars>>

\* match is None: nothing happens for this line
NoMatch ==
    /\ InLineLoop
    /\ CurLine # <<>>
    /\ ~is_header(CurLine)
    /\ ~is_metadata(CurLine)
    /\ ~re_match(CurLine).matched
    /\ li' = li + 1
    /\ UNCHANGED <<text, lines, in_table, point_names, pc, ExtractVars, CleanVars>>

\* if match: ... extract_point_name_from_section(first_section) is called
MatchRow ==
    /\ InLineLoop
    /\ CurLine # <<>>
    /\ ~is_header(CurLine)
    /\ ~is_metadata(CurLine)
    /\ re_match(CurLine).matched
    /\ first_section' = section_of(re_match(CurLine).group2)
    /\ pc' = "call"
    /\ UNCHANGED <<text, lines, li, in_table, point_names,
                   tokens, ti, name_tokens, result, CleanVars>>

\* tokens = text.split(); if not tokens: return ""; name_tokens = []
ExtractEntry ==
    /\ pc = "call"
    /\ tokens' = str_split_ws(first_section)
    /\ ti' = 1
    /\ name_tokens' = <<>>
    /\ IF str_split_ws(first_section) = <<>>
       THEN result' = <<>> /\ pc' = "returned"
       ELSE result' = result /\ pc' = "loop"
    /\ UNCHANGED <<text, lines, li, in_table, point_names, first_section, CleanVars>>

InTokenLoop == pc = "loop" /\ ti <= Len(tokens)

Step == token_step(tokens[ti], name_tokens)

\* a stop keyword: break
TokStop ==
    /\ InTokenLoop
    /\ Step.branch = "stop"
    /\ pc' = "join"
    /\ UNCHANGED <<text, lines, li, in_table, point_names,
                   first_section, tokens, ti, name_tokens, result, CleanVars>>

\* nothing left after cleaning: continue
TokSkip ==
    /\ InTokenLoop
    /\ Step.branch = "skip"
    /\ ti' = ti + 1
    /\ UNCHANGED <<text, lines, li, in_table, point_names, pc,
                   first_section, tokens, name_tokens, result, CleanVars>>

\* a number after the first name token: append it if short, break
TokNumber ==
    /\ InTokenLoop
    /\ Step.branch = "number"
    /\ name_tokens' = Step.acc
    /\ pc' = "join"
    /\ UNCHANGED <<text, lines, li, in_table, point_names,
                   first_section, tokens, ti, result, CleanVars>>

\* name_tokens.append(cleaned); break when the limit is reached
TokAppend ==
    /\ InTokenLoop
    /\ Step.branch = "append"
    /\ name_tokens' = Step.acc
    /\ IF Step.brk THEN pc' = "join" /\ ti' = ti
                   ELSE pc' = "loop" /\ ti' = ti + 1
    /\ UNCHANGED <<text, lines, li, in_table, point_names,
                   first_section, tokens, result, CleanVars>>

\* the for loop runs out of tokens
LoopExhausted ==
    /\ pc = "loop"
    /\ ti > Len(tokens)
    /\ pc' = "join"
    /\ UNCHANGED <<text, lines, li, in_table, point_names,
                   first_section, tokens, ti, name_tokens, result, CleanVars>>

\* result = ' '.join(name_tokens).strip(); result = re.sub(...); return result
JoinReturn ==
    /\ pc = "join"
    /\ result' = join_name(name_tokens)
    /\ pc' = "returned"
    /\ UNCHANGED <<text, lines, li, in_table, point_names,
                   first_section, tokens, ti, name_tokens, CleanVars>>

FromLineLoop == pc = "returned" /\ li \in 1..Len(lines)

\* if point_name and is_valid_point_name(point_name): point_names.append(...)
KeepName ==
    /\ FromLineLoop
    /\ result # <<>> /\ is_valid_point_name(result)
    /\ point_names' = Append(point_names, result)
    /\ li' = li + 1
    /\ pc' = "lines"
    /\ UNCHANGED <<text, lines, in_table, ExtractVars, CleanVars>>

DropName ==
    /\ FromLineLoop
    /\ ~(result # <<>> /\ is_valid_point_name(result))
    /\ li' = li + 1
    /\ pc' = "lines"
    /\ UNCHANGED <<text, lines, in_table, point_names, ExtractVars, CleanVars>>

\* return point_names
Finish ==
    /\ pc = "lines"
    /\ li > Len(lines)
    /\ pc' = "done"
    /\ UNCHANGED <<text, lines, li, in_table, point_names, ExtractVars, CleanVars>>

Init ==
    /\ text \in Texts
    /\ pc = "start"
    /\ lines = <<>> /\ li = 0 /\ in_table = FALSE /\ point_names = <<>>
    /\ first_section = <<>> /\ tokens = <<>> /\ ti = 0
    /\ name_tokens = <<>> /\ result = <<>>
    /\ token = <<>> /\ once = <<>> /\ twice = <<>>

Next ==
    \/ SplitText \/ SkipBlank \/ Header \/ SkipMetadata \/ NoMatch \/ MatchRow
    \/ ExtractEntry \/ TokStop \/ TokSkip \/ TokNumber \/ TokAppend
    \/ LoopExhausted \/ JoinReturn
    \/ KeepName \/ DropName \/ Finish

Spec == Init /\ [][Next]_vars

(***************************************************************************)
(* extract_point_name_from_section called on its own                       *)
(***************************************************************************)
InitExtract ==
    /\ first_section \in Sections
    /\ pc = "call"
    /\ text = <<>> /\ lines = <<>> /\ li = 0
    /\ in_table = FALSE /\ point_names = <<>>
    /\ tokens = <<>> /\ ti = 0 /\ name_tokens = <<>> /\ result = <<>>
    /\ token = <<>> /\ once = <<>> /\ twice = <<>>

NextExtract ==
    \/ ExtractEntry \/ TokStop \/ TokSkip \/ TokNumber \/ TokAppend
    \/ LoopExhausted \/ JoinReturn

SpecExtract == InitExtract /\ [][NextExtract]_vars

(***************************************************************************)
(* clean_ocr_artifacts applied once and then again to its own output       *)
(***************************************************************************)
CleanOnce ==
    /\ pc = "clean0"
    /\ once' = clean_ocr_artifacts(token)
    /\ pc' = "clean1"
    /\ UNCHANGED <<text, lines, li, in_table, point_names, ExtractVars, token, twice>>

CleanTwice ==
    /\ pc = "clean1"
    /\ twice' = clean_ocr_artifacts(once)
    /\ pc' = "clean2"
    /\ UNCHANGED <<text, lines, li, in_table, point_names, ExtractVars, token, once>>

InitClean ==
    /\ token \in CleanInputs
    /\ pc = "clean0"
    /\ once = <<>> /\ twice = <<>>
    /\ text = <<>> /\ lines = <<>> /\ li = 0
    /\ in_table = FALSE /\ point_names = <<>>
    /\ first_section = <<>> /\ tokens = <<>> /\ ti = 0
    /\ name_tokens = <<>> /\ result = <<>>

NextClean == CleanOnce \/ CleanTwice

SpecClean == InitClean /\ [][NextClean]_vars

(***************************************************************************)
(* Properties                                                              *)
(***************************************************************************)

\* C1: every string in the sequence built by extract_point_names_from_text is
\* a Point Name: non-empty, not solely numeric, with at least one alphabetic
\* character, and its upper-cased form does not contain "SPARE".
C1_PointNamesValid ==
    \A k \in 1..Len(point_names) :
        LET n == point_names[k] IN
        /\ n # <<>>
        /\ ~(\A i \in 1..Len(n) : n[i] \in DigitChars)
        /\ \E i \in 1..Len(n) : ch_isalpha(n[i])
        /\ ~str_contains(str_upper(n), <<"S", "P", "A", "R", "E">>)

\* a finished run over a text with a row whose name contains "sPaRe" and a
\* row whose name was kept
C1_Witness ==
    /\ pc = "done"
    /\ point_names # <<>>
    /\ \E i \in 1..Len(lines) : lines[i] = L_SpareInside

\* C2 (as stated): the worked example document yields exactly
\* ["Pump 1 Run Status"].
C2_ExampleWholeName ==
    (pc = "done" /\ text = DocExample)
        => point_names = << <<"P", "u", "m", "p", " ", "1", " ", "R", "u", "n", " ", "S", "t", "a", "t", "u", "s">> >>

C3_Skips ==
    { <<"P", "L", "O", "T", " ", "B", "Y", ":">>, <<".", "d", "w", "g">>,
      <<"D", "I", "A", "G">>, <<"N", "O", "T", "E">>,
      <<"C", "O", "E", "F", "F", "I", "C", "I", "E", "N", "T">>,
      <<"O", "F", "F", "S", "E", "T">> }

\* positions r at which a remainder can start: line[1..d] are digits, all of
\* line[d+1..r-1] (at least one character) are '|', '[' or whitespace, and
\* line[r..] is not empty
C3_RemainderStarts(line) ==
    {r \in 3..Len(line) :
        \E d \in 1..(r - 2) :
            /\ \A i \in 1..d : line[i] \in DigitChars
            /\ \A i \in (d + 1)..(r - 1) : line[i] \in {"|", "[", " ", "\t"}}

C3_IsRow(line) ==
    /\ line # <<>>
    /\ ~str_contains(str_upper(line), <<"P", "O", "I", "N", "T", " ", "N", "A", "M", "E">>)
    /\ \A k \in C3_Skips : ~str_contains(line, k)
    /\ C3_RemainderStarts(line) # {}

\* the separators take as much as they can: the remainder is the shortest one
C3_Remainder(line) ==
    LET rs == C3_RemainderStarts(line)
        r == CHOOSE x \in rs : \A y \in rs : x >= y
    IN  SubSeq(line, r, Len(line))

\* the part of the remainder before its first pipe
C3_FirstPipeSection(rem) ==
    LET pipes == {i \in 1..Len(rem) : rem[i] = "|"} IN
    IF pipes = {} THEN rem
    ELSE SubSeq(rem, 1, (CHOOSE i \in pipes : \A j \in pipes : i <= j) - 1)

C3_Contribution(raw) ==
    LET line == str_strip(raw) IN
    IF ~C3_IsRow(line) THEN <<>>
    ELSE LET name == extract_point_name_from_section(
                         C3_FirstPipeSection(C3_Remainder(line)))
         IN  IF is_valid_point_name(name) THEN <<name>> ELSE <<>>

RECURSIVE C3_Expected(_)
C3_Expected(ls) ==
    IF ls = <<>> THEN <<>>
    ELSE C3_Contribution(Head(ls)) \o C3_Expected(Tail(ls))

\* C3: the sequence built so far is, in line order and with duplicates kept,
\* the list of valid extracted names of the lines read so far that are rows
\* (non-empty after trimming, no "POINT NAME" in any case, none of the
\* metadata substrings, matching the row pattern); at the end this is the
\* whole text, and the lines are the text split at newlines.
C3_ResultIsFilteredRows ==
    /\ pc \in {"lines", "done"} =>
          point_names = C3_Expected(SubSeq(lines, 1, li - 1))
    /\ pc = "done" =>
          /\ li = Len(lines) + 1
          /\ lines = str_split(text, "\n")
          /\ point_names = C3_Expected(str_split(text, "\n"))

\* a finished two-line text whose two rows gave the same name twice
C3_Witness ==
    /\ pc = "done"
    /\ Len(lines) = 2
    /\ Len(point_names) = 2
    /\ point_names[1] = point_names[2]

C4_StartsWith_l_l_Upper(d) ==
    Len(d) >= 3 /\ d[1] = "l" /\ d[2] = "l" /\ ch_isupper(d[3])

C4_StartsWith_Slash_Slash(d) == Len(d) >= 2 /\ d[1] = "/" /\ d[2] = "/"

C4_StartsWith_Slash_l_Upper(d) ==
    Len(d) >= 3 /\ d[1] = "/" /\ d[2] = "l" /\ ch_isupper(d[3])

C4_Deleted(t) == SelectSeq(t, LAMBDA c : c \notin {"|", "[", "]", "(", ")", "{", "}", "_"})

\* C4 (as stated): for a token that, after deletion of the artifact
\* characters, starts neither with "ll"+uppercase nor with "//", cleaning
\* twice gives the same as cleaning once.
C4_IdempotentAsStated ==
    (/\ pc = "clean2"
     /\ ~C4_StartsWith_l_l_Upper(C4_Deleted(token))
     /\ ~C4_StartsWith_Slash_Slash(C4_Deleted(token)))
        => twice = once

\* C4 (amended): for a token that, after deletion of the artifact characters,
\* starts with none of "ll"+uppercase, "//" and "/l"+uppercase, cleaning twice
\* gives the same as cleaning once.
C4_IdempotentAmended ==
    (/\ pc = "clean2"
     /\ ~C4_StartsWith_l_l_Upper(C4_Deleted(token))
     /\ ~C4_StartsWith_Slash_Slash(C4_Deleted(token))
     /\ ~C4_StartsWith_Slash_l_Upper(C4_Deleted(token)))
        => twice = once

\* a token in the amended domain that both fixes changed: "_lX" becomes "X"
C4_Witness ==
    /\ pc = "clean2"
    /\ token = <<"_", "l", "X">>
    /\ once = <<"X">>
    /\ twice = once

C5_Keywords ==
    { <<"C", "L", "O", "S", "E">>, <<"O", "P", "E", "N">>,
      <<"N", "O", "R", "M", "A", "L">>, <<"A", "L", "A", "R", "M">>,
      <<"A", "U", "T", "O">>, <<"S", "O", "L", "I", "D">>,
      <<"M", "A", "N", "U", "A", "L">>, <<"R", "K">>, <<"D", "I">> }

\* the raw token, upper-cased, contains one of the keywords
C5_IsStop(tok) ==
    LET upper == str_upper(tok) IN \E k \in C5_Keywords : str_contains(upper, k)

\* index of the first such token, Len + 1 when there is none
C5_FirstStop(toks) ==
    LET hits == {j \in 1..Len(toks) : C5_IsStop(toks[j])} IN
    IF hits = {} THEN Len(toks) + 1
    ELSE CHOOSE j \in hits : \A h \in hits : j <= h

C5_CleanedBefore(toks, n) == {clean_ocr_artifacts(toks[j]) : j \in 1..(n - 1)}

\* C5: the token loop never goes past the first raw token whose upper-cased
\* form contains one of CLOSE, OPEN, NORMAL, ALARM, AUTO, SOLID, MANUAL, RK,
\* DI; when the loop stands at that token it stops there (and it is the raw
\* token that decides, not the cleaned one); the name is made of cleaned
\* tokens that come before it, and the returned name is the one returned for
\* the section cut before that token. "52 Breaker Status Open 125" gives
\* "52 Breaker Status".
C5_StopsAtFirstKeyword ==
    pc \in {"loop", "join", "returned"} =>
        LET first == C5_FirstStop(tokens)
            before == C5_CleanedBefore(tokens, first)
        IN
        /\ ti <= first
        /\ (pc = "loop" /\ ti <= Len(tokens)) =>
               ((Step.branch = "stop") <=> (ti = first))
        /\ \A k \in 1..Len(name_tokens) : name_tokens[k] \in before
        /\ pc = "returned" =>
               /\ result = extract_point_name_from_section(
                               str_join(SubSeq(tokens, 1, first - 1)))
               /\ first_section = X_Breaker =>
                      result = <<"5", "2", " ", "B", "r", "e", "a", "k", "e", "r", " ", "S", "t", "a", "t", "u", "s">>

\* the example has returned: the loop stood at "Open", the fourth of five tokens
C5_Witness ==
    /\ pc = "returned"
    /\ first_section = X_Breaker
    /\ Len(tokens) = 5 /\ ti = 4
    /\ Len(name_tokens) = 3

C6_Markers ==
    { <<"[", "o", "r">>, <<"[", "o", "t">>, <<"[", "p", "I">>,
      <<"[", "o", "I">>, <<"[", "d", "I">> }

\* C6 (as stated): a raw token that contains one of "[or", "[ot", "[pI",
\* "[oI", "[dI" as written stops the iteration: the loop never moves past
\* such a token and no name token comes from it or from a later token.
C6_BracketMarkersStop ==
    pc \in {"loop", "join", "returned"} =>
        \A j \in 1..Len(tokens) :
            (\E m \in C6_Markers : str_contains(tokens[j], m)) =>
                /\ ti <= j
                /\ \A k \in 1..Len(name_tokens) :
                       name_tokens[k] \in C5_CleanedBefore(tokens, j)

C7_Cleaned == clean_ocr_artifacts(tokens[ti])

C7_AtDigitToken ==
    /\ pc = "loop" /\ ti <= Len(tokens)
    /\ ~C5_IsStop(tokens[ti])
    /\ C7_Cleaned # <<>>
    /\ \A i \in 1..Len(C7_Cleaned) : C7_Cleaned[i] \in DigitChars

C7_Step ==
    C7_AtDigitToken =>
        IF name_tokens # <<>>
        THEN /\ pc' = "join"
             /\ name_tokens' = IF Len(C7_Cleaned) <= 2
                               THEN Append(name_tokens, C7_Cleaned)
                               ELSE name_tokens
        ELSE /\ pc' = "loop"
             /\ ti' = ti + 1
             /\ name_tokens' = <<C7_Cleaned>>

C7_Example ==
    (pc = "returned" /\ first_section = X_Feeder)
        => result = <<"F", "e", "e", "d", "e", "r", " ", "7">>

C8_AtMostTenTokens ==
    /\ Len(name_tokens) <= 10
    /\ Len(name_tokens) = 10 => pc # "loop"
    /\ pc = "returned" => Len(str_split(result, " ")) <= 10

\* a name of 10 tokens whose tenth is a short number, with a token left over
C8_Witness ==
    /\ pc = "returned"
    /\ Len(name_tokens) = 10
    /\ name_tokens[10] = <<"7">>
    /\ Len(tokens) > 10
    /\ Len(str_split(result, " ")) = 10

C9_WithoutHeaders(ls) ==
    SelectSeq(ls, LAMBDA l :
        ~str_contains(str_upper(l), <<"P", "O", "I", "N", "T", " ", "N", "A", "M", "E">>))

\* C9: the flag set by a header line does not gate row matching: a line that
\* is a row is matched whatever the value of the flag, a header line adds
\* nothing, and the result for a text is the result for the text without its
\* header lines.
C9_FlagGatesNothing ==
    /\ (pc = "lines" /\ li <= Len(lines) /\ C3_IsRow(CurLine)) =>
           re_match(CurLine).matched
    /\ pc \in {"lines", "done"} =>
           point_names = C3_Expected(C9_WithoutHeaders(SubSeq(lines, 1, li - 1)))

\* a finished text whose only header line comes after its data row: the row
\* was read with the flag unset and still gave a name
C9_Witness ==
    /\ pc = "done"
    /\ in_table
    /\ Len(lines) = 2
    /\ str_contains(str_upper(lines[2]), S_POINT_NAME)
    /\ Len(point_names) = 1

C10_Clean(n) ==
    /\ \A i \in 1..Len(n) : n[i] \notin {"|", "[", "]", "(", ")", "{", "}", "_", "\t", "\n"}
    /\ n # <<>> => (n[1] # " " /\ n[Len(n)] # " ")
    /\ \A i \in 1..(Len(n) - 1) : ~(n[i] = " " /\ n[i + 1] = " ")

\* C10: the name returned by extract_point_name_from_section, and so every
\* name in point_names, has none of the characters | [ ] ( ) { } _, no
\* leading or trailing whitespace and no two whitespace characters in a row:
\* it is its tokens joined by exactly one space.
C10_NamesAreClean ==
    /\ pc = "returned" =>
           /\ C10_Clean(result)
           /\ result = str_join(name_tokens)
           /\ \A k \in 1..Len(name_tokens) :
                  /\ name_tokens[k] # <<>>
                  /\ \A i \in 1..Len(name_tokens[k]) : name_tokens[k][i] # " "
    /\ \A k \in 1..Len(point_names) : C10_Clean(point_names[k])

\* the row "8 [ lINPUT_(A) () {b} | x" has given the name "INPUTA b"
C10_Witness ==
    /\ pc = "done"
    /\ \E i \in 1..Len(lines) : lines[i] = L_Artifacts
    /\ \E k \in 1..Len(point_names) :
           point_names[k] = <<"I", "N", "P", "U", "T", "A", " ", "b">>

====
